---- MODULE Spec2Model ----
(***************************************************************************)
(* Model of src/src/conv.rs: the PAM conversation callback `converse`,     *)
(* the libc allocator calls it makes (calloc, strdup, free) and the        *)
(* Conversation handler it dispatches to.                                  *)
(*                                                                         *)
(* Pointers are indices into `heap` (0 is NULL).  A heap block remembers   *)
(* how often it was freed by the bridge (frees) and how often its          *)
(* ownership was handed to the host (pubs); both are ghost counters.       *)
(***************************************************************************)
EXTENDS Integers, Sequences, FiniteSets, TLC

\* ---------------------------------------------------------------- bounds
MaxMsgs == 2        \* largest non-negative num_msg the host passes
NegMsgs == 1        \* how many negative num_msg values the host may pass
MaxCalls == 2       \* number of calls (converse, set_credentials) explored

NULL == 0

\* PamMessageStyle (matched at conv.rs:107-128)
Styles == {"Prompt_Echo_On", "Prompt_Echo_Off", "Text_Info", "Error_Msg"}
PromptStyles == {"Prompt_Echo_On", "Prompt_Echo_Off"}

\* PamReturnCode values converse can produce
Success == "Success"
Buf_Err == "Buf_Err"
Conv_Err == "Conv_Err"

\* texts are byte strings; byte 0 is the C terminator
MsgTexts == {<<7, 8>>}
Answers == {<<2, 1>>}

\* the messages of one call: m.msg_style, m.msg
Messages == [msg_style : Styles, msg : MsgTexts]

\* Result<CString, ()> as returned by prompt_echo / prompt_blind
Ok(t) == [ok |-> TRUE, text |-> t]
Err == [ok |-> FALSE, text |-> <<>>]
HandlerResults == {Ok(t) : t \in Answers} \cup {Err}
\* info and error return ()
Unit == Ok(<<>>)

VARIABLES
  pc,             \* "idle", "loop" (99-133), "exit" (135-141), "returned"
  num_msg, msg,   \* arguments of the running call
  out_resp,       \* the host's cell *out_resp
  resp,           \* pointer returned by calloc
  i, result,      \* loop index and running status
  ret,            \* the c_int the last call returned ("none" before any)
  heap,           \* every block calloc/strdup ever returned
  hcalls,         \* handler operations invoked by the running call
  nread,          \* messages dereferenced by the running call
  ncalls,         \* calls so far
  out_resp_entry, \* *out_resp when the running call was entered
  heap_entry,     \* heap when the running call was entered
  prompt_failed,  \* some prompt of some call was answered with Err
  login, passwd,  \* the fields of the PasswordConv handler
  prev            \* what an earlier call was given and what it did

vars == <<pc, num_msg, msg, out_resp, resp, i, result, ret, heap, hcalls,
          nread, ncalls, out_resp_entry, heap_entry, prompt_failed,
          login, passwd, prev>>

\* the state outside converse and its allocator
ext == <<login, passwd, prev>>

\* no earlier call remembered
NoPrev == [called |-> FALSE]

\* ------------------------------------------------------------ allocator
\* variant: one slot too many
ArrayBlock_OneMore(n) ==
  [kind |-> "array", slots |-> [k \in 1..(n + 1) |-> NULL], bytes |-> <<>>,
   frees |-> 0, pubs |-> 0]

ArrayBlock(n) ==
  [kind |-> "array", slots |-> [k \in 1..n |-> NULL], bytes |-> <<>>,
   frees |-> 0, pubs |-> 0]

StringBlock(b) ==
  [kind |-> "string", slots |-> <<>>, bytes |-> b, frees |-> 0, pubs |-> 0]

\* `num_msg as usize` times size_of::<PamResponse>() overflows the word
\* exactly when num_msg is negative; calloc then returns NULL
CallocOverflows(n) == n < 0

\* CString::as_ptr: the bytes followed by the terminator
AsPtr(t) == t \o <<0>>

RECURSIVE CStrLen(_)
CStrLen(b) == IF b = <<>> \/ Head(b) = 0 THEN 0 ELSE 1 + CStrLen(Tail(b))

\* the block strdup fills: the bytes up to and including the first 0
StrdupBytes(b) == SubSeq(b, 1, CStrLen(b)) \o <<0>>

\* the text a host reads from a C string pointer
TextAt(h, p) == SubSeq(h[p].bytes, 1, CStrLen(h[p].bytes))

\* free(p)
Free(h, p) == [h EXCEPT ![p].frees = @ + 1]

\* *out_resp = resp: the host now owns the array and the strings in it
Publish(h, p) ==
  [q \in DOMAIN h |->
     IF q = p \/ (\E k \in DOMAIN h[p].slots : h[p].slots[k] = q)
     THEN [h[q] EXCEPT !.pubs = @ + 1] ELSE h[q]]

\* -------------------------------------------------------------- converse
Init ==
  /\ pc = "idle" /\ num_msg = 0 /\ msg = <<>> /\ out_resp = NULL
  /\ resp = NULL /\ i = 0 /\ result = Success /\ ret = "none"
  /\ heap = <<>> /\ hcalls = <<>> /\ nread = 0 /\ ncalls = 0
  /\ out_resp_entry = NULL /\ heap_entry = <<>> /\ prompt_failed = FALSE
  /\ login = <<>> /\ passwd = <<>> /\ prev = NoPrev

\* the argument lists a host can pass
MsgArrays(n) == IF n < 0 THEN {<<>>} ELSE [1..n -> Messages]

\* variant: the running status survives from the previous call
Entered_KeepsResult(n, m) ==
  /\ pc \in {"idle", "returned"} /\ ncalls < MaxCalls
  /\ num_msg' = n /\ msg' = m /\ ncalls' = ncalls + 1
  /\ hcalls' = <<>> /\ nread' = 0 /\ i' = 0 /\ result' = result
  /\ out_resp_entry' = out_resp /\ heap_entry' = heap
  /\ UNCHANGED <<out_resp, prompt_failed>>

\* entry of converse(n, m, out_resp, appdata_ptr), conv.rs:83-98
Entered(n, m) ==
  /\ pc \in {"idle", "returned"} /\ ncalls < MaxCalls
  /\ num_msg' = n /\ msg' = m /\ ncalls' = ncalls + 1
  /\ hcalls' = <<>> /\ nread' = 0 /\ i' = 0 /\ result' = Success
  /\ out_resp_entry' = out_resp /\ heap_entry' = heap
  /\ UNCHANGED <<out_resp, prompt_failed>>

\* variant: the output cell is written before the null check
CallocNull_WritesOut(n, m) ==
  /\ pc \in {"idle", "returned"} /\ ncalls < MaxCalls
  /\ num_msg' = n /\ msg' = m /\ ncalls' = ncalls + 1
  /\ hcalls' = <<>> /\ nread' = 0 /\ i' = 0 /\ result' = Success
  /\ out_resp_entry' = out_resp /\ heap_entry' = heap
  /\ out_resp' = NULL
  /\ resp' = NULL /\ ret' = Buf_Err /\ pc' = "returned"
  /\ UNCHANGED <<heap, prompt_failed>>

\* variant: the allocation failure is reported as a conversation error
CallocNull_ConvErr(n, m) ==
  /\ Entered(n, m)
  /\ resp' = NULL /\ ret' = Conv_Err /\ pc' = "returned"
  /\ UNCHANGED heap

\* conv.rs:90-94, calloc returned NULL
CallocNull(n, m) ==
  /\ Entered(n, m)
  /\ resp' = NULL /\ ret' = Buf_Err /\ pc' = "returned"
  /\ UNCHANGED heap

\* variant: the loop has no break
NextPc_NoBreak(res, idx, n) ==
  IF idx < n THEN "loop" ELSE "exit"

\* where control goes after line 98 / after one loop iteration (130-133)
NextPc(res, idx, n) ==
  IF res # Success THEN "exit"
  ELSE IF idx < n THEN "loop" ELSE "exit"

\* conv.rs:90-98, calloc returned a zeroed array of num_msg slots
CallocOk(n, m) ==
  /\ Entered(n, m)
  /\ ~CallocOverflows(n)
  /\ heap' = Append(heap, ArrayBlock(n))
  /\ resp' = Len(heap) + 1
  /\ ret' = "none"
  /\ pc' = NextPc(Success, 0, n)

\* conv.rs:102-105, the message of iteration i
Cur == msg[i + 1]

\* variant: the answer always lands in the first slot
StoreAnswer_FirstSlot(h, r, idx, text, dup_ok) ==
  IF dup_ok
  THEN [Append(h, StringBlock(StrdupBytes(AsPtr(text))))
          EXCEPT ![r].slots[1] = Len(h) + 1]
  ELSE [h EXCEPT ![r].slots[1] = NULL]

\* variant: the slot keeps handler_response.as_ptr() itself, a buffer that
\* is released when handler_response is dropped at the end of the arm
StoreAnswer_NoCopy(h, r, idx, text, dup_ok) ==
  [Append(h, [StringBlock(AsPtr(text)) EXCEPT !.frees = 1])
     EXCEPT ![r].slots[idx + 1] = Len(h) + 1]

\* r.resp = strdup(handler_response.as_ptr()), conv.rs:110 and 117
StoreAnswer(h, r, idx, text, dup_ok) ==
  IF dup_ok
  THEN [Append(h, StringBlock(StrdupBytes(AsPtr(text))))
          EXCEPT ![r].slots[idx + 1] = Len(h) + 1]
  ELSE [h EXCEPT ![r].slots[idx + 1] = NULL]

\* one iteration: message i was read, the handler's op called with its
\* text and answered hr, the running status became res
Iterated(op, hr, res) ==
  /\ hcalls' = Append(hcalls, [op |-> op, idx |-> i, msg |-> Cur.msg,
                               res |-> hr])
  /\ nread' = nread + 1
  /\ result' = res
  /\ pc' = NextPc(res, i + 1, num_msg)
  /\ i' = IF pc' = "loop" THEN i + 1 ELSE i
  /\ UNCHANGED <<num_msg, msg, out_resp, resp, ret, ncalls,
                 out_resp_entry, heap_entry>>

\* conv.rs:108-114 and 115-121, for a handler whose op answers with one
\* of `results`
PromptWith(style, op, results) ==
  /\ pc = "loop" /\ Cur.msg_style = style
  /\ \E hr \in results, dup_ok \in BOOLEAN :
       /\ heap' = IF hr.ok THEN StoreAnswer(heap, resp, i, hr.text, dup_ok)
                  ELSE heap
       /\ prompt_failed' = (prompt_failed \/ ~hr.ok)
       /\ Iterated(op, hr, IF hr.ok THEN result ELSE Conv_Err)

\* the prompt arms for an arbitrary Conversation
Prompt(style, op) == PromptWith(style, op, HandlerResults)

PromptEchoOn == Prompt("Prompt_Echo_On", "prompt_echo")

\* variant: the blind prompt is dispatched to prompt_echo
PromptEchoOff_CallsEcho == Prompt("Prompt_Echo_Off", "prompt_echo")

PromptEchoOff == Prompt("Prompt_Echo_Off", "prompt_blind")

\* variant: an informational message fails the conversation
TextInfo_ConvErr ==
  /\ pc = "loop" /\ Cur.msg_style = "Text_Info"
  /\ Iterated("info", Unit, Conv_Err)
  /\ UNCHANGED <<heap, prompt_failed>>

\* conv.rs:122-124
TextInfo ==
  /\ pc = "loop" /\ Cur.msg_style = "Text_Info"
  /\ Iterated("info", Unit, result)
  /\ UNCHANGED <<heap, prompt_failed>>

\* variant: the error message does not change the status
ErrorMsg_KeepsStatus ==
  /\ pc = "loop" /\ Cur.msg_style = "Error_Msg"
  /\ Iterated("error", Unit, result)
  /\ UNCHANGED <<heap, prompt_failed>>

\* variant: the status is set but the handler is not notified
ErrorMsg_NoNotify ==
  /\ pc = "loop" /\ Cur.msg_style = "Error_Msg"
  /\ nread' = nread + 1
  /\ result' = Conv_Err
  /\ pc' = "exit"
  /\ UNCHANGED <<num_msg, msg, out_resp, resp, ret, ncalls, i, hcalls,
                 out_resp_entry, heap_entry, heap, prompt_failed>>

\* conv.rs:125-128
ErrorMsg ==
  /\ pc = "loop" /\ Cur.msg_style = "Error_Msg"
  /\ Iterated("error", Unit, Conv_Err)
  /\ UNCHANGED <<heap, prompt_failed>>

\* variant: the error path forgets the free
Finish_NoFree ==
  /\ pc = "exit"
  /\ IF result # Success
     THEN UNCHANGED <<heap, out_resp>>
     ELSE heap' = Publish(heap, resp) /\ out_resp' = resp
  /\ ret' = result
  /\ pc' = "returned"
  /\ UNCHANGED <<num_msg, msg, resp, i, result, hcalls, nread, ncalls,
                 out_resp_entry, heap_entry, prompt_failed>>

\* variant: the output cell is written on the error path too
Finish_WritesOut ==
  /\ pc = "exit"
  /\ IF result # Success
     THEN heap' = Free(heap, resp)
     ELSE heap' = Publish(heap, resp)
  /\ out_resp' = resp
  /\ ret' = result
  /\ pc' = "returned"
  /\ UNCHANGED <<num_msg, msg, resp, i, result, hcalls, nread, ncalls,
                 out_resp_entry, heap_entry, prompt_failed>>

\* conv.rs:135-142
Finish ==
  /\ pc = "exit"
  /\ IF result # Success
     THEN heap' = Free(heap, resp) /\ UNCHANGED out_resp
     ELSE heap' = Publish(heap, resp) /\ out_resp' = resp
  /\ ret' = result
  /\ pc' = "returned"
  /\ UNCHANGED <<num_msg, msg, resp, i, result, hcalls, nread, ncalls,
                 out_resp_entry, heap_entry, prompt_failed>>

NumMsgs == (0 - NegMsgs)..MaxMsgs

\* converse::<C> for an arbitrary Conversation C
Next ==
  \/ (\E n \in NumMsgs : \E m \in MsgArrays(n) : CallocNull(n, m))
       /\ UNCHANGED ext
  \/ (\E n \in NumMsgs : \E m \in MsgArrays(n) : CallocOk(n, m))
       /\ UNCHANGED ext
  \/ PromptEchoOn /\ UNCHANGED ext
  \/ PromptEchoOff /\ UNCHANGED ext
  \/ TextInfo /\ UNCHANGED ext
  \/ ErrorMsg /\ UNCHANGED ext
  \/ Finish /\ UNCHANGED ext

Spec == Init /\ [][Next]_vars

\* ---------------------------------------------------------- PasswordConv
\* texts set_credentials is given; a Rust String may hold the byte 0
Creds ==
  {[login |-> <<2, 1>>, password |-> <<1, 0, 2>>],
   [login |-> <<1, 0, 2>>, password |-> <<3>>]}

\* the PasswordConv the handler pointer refers to
Self == [login |-> login, passwd |-> passwd]

\* position of the first 0 byte of b, 0 if there is none (memchr)
RECURSIVE FirstNul(_)
FirstNul(b) ==
  IF b = <<>> THEN 0
  ELSE IF Head(b) = 0 THEN 1
  ELSE IF FirstNul(Tail(b)) = 0 THEN 0 ELSE 1 + FirstNul(Tail(b))

\* CString::new(bytes).map_err(|_| ())
CStringNew(b) == IF FirstNul(b) = 0 THEN Ok(b) ELSE Err

\* PasswordConv::prompt_echo(&mut self, _msg)
prompt_echo(self, q) == CStringNew(self.login)

\* variant: the blind prompt answers with the login
prompt_blind_Login(self, q) == CStringNew(self.login)

\* PasswordConv::prompt_blind(&mut self, _msg)
prompt_blind(self, q) == CStringNew(self.passwd)

\* PasswordConv::set_credentials, called between two conversations
set_credentials(l, p) ==
  /\ pc \in {"idle", "returned"} /\ ncalls < MaxCalls
  /\ login' = l /\ passwd' = p
  /\ ncalls' = ncalls + 1
  /\ UNCHANGED <<pc, num_msg, msg, out_resp, resp, i, result, ret, heap,
                 hcalls, nread, out_resp_entry, heap_entry,
                 prompt_failed, prev>>

PwPromptEchoOn ==
  /\ PromptWith("Prompt_Echo_On", "prompt_echo",
                {prompt_echo(Self, Cur.msg)})
  /\ UNCHANGED ext

PwPromptEchoOff ==
  /\ PromptWith("Prompt_Echo_Off", "prompt_blind",
                {prompt_blind(Self, Cur.msg)})
  /\ UNCHANGED ext

\* PasswordConv::info does nothing
PwTextInfo == TextInfo /\ UNCHANGED ext

\* PasswordConv::error prints the message to the diagnostic stream, which
\* is not part of the state
PwErrorMsg == ErrorMsg /\ UNCHANGED ext

\* converse::<PasswordConv>, with set_credentials between the calls
NextPw ==
  \/ \E c \in Creds : set_credentials(c.login, c.password)
  \/ (\E n \in NumMsgs : \E m \in MsgArrays(n) : CallocNull(n, m))
       /\ UNCHANGED ext
  \/ (\E n \in NumMsgs : \E m \in MsgArrays(n) : CallocOk(n, m))
       /\ UNCHANGED ext
  \/ PwPromptEchoOn
  \/ PwPromptEchoOff
  \/ PwTextInfo
  \/ PwErrorMsg
  \/ Finish /\ UNCHANGED ext

SpecPw == Init /\ [][NextPw]_vars

\* ------------------------------------------------------- repeated calls
\* a null slot in a record of slot texts
NoText == <<-1>>

\* what the host finds in the slots of the running call's array
SlotTexts ==
  IF resp = NULL THEN <<>>
  ELSE [j \in DOMAIN heap[resp].slots |->
          IF heap[resp].slots[j] = NULL THEN NoText
          ELSE TextAt(heap, heap[resp].slots[j])]

\* the call that has just returned: what it was given and what it did
Summary ==
  [called |-> TRUE, num_msg |-> num_msg, msg |-> msg,
   alloc |-> resp # NULL, hcalls |-> hcalls, slots |-> SlotTexts,
   ret |-> ret, published |-> (resp # NULL /\ out_resp = resp)]

\* the observer remembers the call that has just returned when the host
\* repeats its arguments, and nothing when the arguments change
Remember(n, m) ==
  /\ prev' = IF pc = "returned" /\ n = num_msg /\ m = msg
             THEN Summary ELSE NoPrev
  /\ UNCHANGED <<login, passwd>>

\* converse::<C> called again and again, an earlier call being remembered
NextRepeat ==
  \/ \E n \in NumMsgs : \E m \in MsgArrays(n) :
       CallocNull(n, m) /\ Remember(n, m)
  \/ \E n \in NumMsgs : \E m \in MsgArrays(n) :
       CallocOk(n, m) /\ Remember(n, m)
  \/ PromptEchoOn /\ UNCHANGED ext
  \/ PromptEchoOff /\ UNCHANGED ext
  \/ TextInfo /\ UNCHANGED ext
  \/ ErrorMsg /\ UNCHANGED ext
  \/ Finish /\ UNCHANGED ext

SpecRepeat == Init /\ [][NextRepeat]_vars

\* ------------------------------------------------------------ properties
Returned == pc = "returned"

Arrays == {p \in DOMAIN heap : heap[p].kind = "array"}

\* indices (0-based) of the messages of the running call
Idx == 0..(num_msg - 1)

HasErrorMsg == \E j \in Idx : msg[j + 1].msg_style = "Error_Msg"

FailedCalls == {k \in DOMAIN hcalls : ~hcalls[k].res.ok}

\* C1: whenever a call whose calloc succeeded has returned, its response
\* array is either published through out_resp and never freed, or freed
\* exactly once and not published; never both, never neither.  The same
\* holds of the arrays of earlier calls, and the array of a call still
\* running is neither freed nor published.
C1_PublishedXorFreed ==
  /\ Returned /\ resp # NULL =>
       \/ out_resp = resp /\ heap[resp].pubs = 1 /\ heap[resp].frees = 0
       \/ out_resp # resp /\ heap[resp].pubs = 0 /\ heap[resp].frees = 1
  /\ \A p \in Arrays :
       IF Returned \/ p # resp
       THEN heap[p].pubs + heap[p].frees = 1
       ELSE heap[p].pubs = 0 /\ heap[p].frees = 0

C1_Witness ==
  /\ Returned /\ resp # NULL /\ heap[resp].frees = 1
  /\ \E p \in Arrays : heap[p].pubs = 1 /\ out_resp = p

\* C2: as long as no prompt was ever answered with failure, after every
\* return each block the bridge allocated (arrays and duplicated answers)
\* was published exactly once or freed exactly once.
C2_NoOutstandingAllocation ==
  Returned /\ ~prompt_failed =>
    \A p \in DOMAIN heap : heap[p].pubs + heap[p].frees = 1

\* C3: the returned status is Buf_Err iff calloc failed; otherwise Conv_Err
\* iff the handler answered some prompt with failure or some message has
\* style Error_Msg; otherwise Success.
C3_StatusDetermined ==
  Returned =>
    ret = IF resp = NULL THEN Buf_Err
          ELSE IF FailedCalls # {} \/ HasErrorMsg THEN Conv_Err
          ELSE Success

C3_Witness ==
  /\ Returned /\ ret = Conv_Err /\ FailedCalls = {} /\ Len(hcalls) = 2
  /\ hcalls[1].op = "prompt_blind"

\* C4: at return the cell *out_resp holds the array allocated by this call
\* if the status is Success, and still holds what it held at entry for
\* every other status.
C4_OutRespWrittenIffSuccess ==
  Returned =>
    IF ret = Success
    THEN /\ out_resp = resp
         /\ resp \in DOMAIN heap /\ resp \notin DOMAIN heap_entry
         /\ heap[resp].kind = "array"
    ELSE out_resp = out_resp_entry

C4_Witness ==
  /\ Returned /\ ret = Conv_Err /\ resp # NULL
  /\ out_resp_entry # NULL /\ out_resp = out_resp_entry

\* C5: once the handler has answered the prompt of message k with failure,
\* no message of index greater than k is passed to the handler, and the
\* call returns Conv_Err with *out_resp as it was at entry.
C5_StopAtFailedPrompt ==
  \A k \in FailedCalls :
    /\ hcalls[k].op \in {"prompt_echo", "prompt_blind"}
    /\ \A j \in DOMAIN hcalls : hcalls[j].idx <= hcalls[k].idx
    /\ pc \in {"exit", "returned"}
    /\ out_resp = out_resp_entry
    /\ Returned => ret = Conv_Err

C5_Witness ==
  /\ Returned /\ num_msg = 2 /\ FailedCalls = {1}
  /\ msg[2].msg_style = "Text_Info"

\* 0-based index of the first Error_Msg message (when HasErrorMsg)
FirstErrorMsg ==
  CHOOSE j \in Idx : /\ msg[j + 1].msg_style = "Error_Msg"
                     /\ \A l \in 0..(j - 1) : msg[l + 1].msg_style # "Error_Msg"

ErrorCalls == {k \in DOMAIN hcalls : hcalls[k].op = "error"}

\* C6 as stated: every returned call whose messages contain an Error_Msg
\* returned Conv_Err and invoked the handler's error operation exactly once.
C6_Original ==
  Returned /\ HasErrorMsg =>
    ret = Conv_Err /\ Cardinality(ErrorCalls) = 1

\* C6: a returned call whose messages contain an Error_Msg, whose calloc
\* succeeded and in which no prompt before the first Error_Msg was answered
\* with failure, returned Conv_Err, and its last handler call, and only
\* that one, is error, invoked with the first Error_Msg message.
C6_ErrorMsgIsConvErr ==
  ( /\ Returned /\ HasErrorMsg /\ resp # NULL
    /\ \A k \in FailedCalls : hcalls[k].idx > FirstErrorMsg )
  =>
  /\ ret = Conv_Err
  /\ ErrorCalls = {Len(hcalls)}
  /\ hcalls[Len(hcalls)].idx = FirstErrorMsg
  /\ hcalls[Len(hcalls)].msg = msg[FirstErrorMsg + 1].msg

C6_Witness ==
  /\ Returned /\ HasErrorMsg /\ resp # NULL /\ FirstErrorMsg = 1
  /\ hcalls[1].op = "prompt_echo" /\ hcalls[1].res.ok
  /\ Len(hcalls) = 2

OnlyPrompts == \A j \in Idx : msg[j + 1].msg_style \in PromptStyles

OpOf(style) ==
  CASE style = "Prompt_Echo_On" -> "prompt_echo"
    [] style = "Prompt_Echo_Off" -> "prompt_blind"
    [] style = "Text_Info" -> "info"
    [] style = "Error_Msg" -> "error"

\* C7: a returned call whose calloc succeeded, whose messages are all
\* prompts and whose handler answered every one of them, returned Success
\* and published an array of num_msg slots, slot j holding a non-null text
\* equal to the answer of prompt_echo / prompt_blind for message j.
C7_PromptsAnswered ==
  ( /\ Returned /\ num_msg >= 0 /\ resp # NULL
    /\ OnlyPrompts /\ FailedCalls = {} )
  =>
  /\ ret = Success /\ out_resp = resp
  /\ Len(heap[resp].slots) = num_msg
  /\ Len(hcalls) = num_msg
  /\ \A j \in Idx :
       /\ hcalls[j + 1].idx = j
       /\ hcalls[j + 1].op = OpOf(msg[j + 1].msg_style)
       /\ heap[resp].slots[j + 1] # NULL
       /\ TextAt(heap, heap[resp].slots[j + 1]) = hcalls[j + 1].res.text

\* C8 as stated: every returned call with num_msg = 0 returned Success and
\* published a zero-length array without any handler call.
C8_Original ==
  Returned /\ num_msg = 0 =>
    /\ ret = Success
    /\ out_resp = resp /\ resp # NULL
    /\ hcalls = <<>>

\* C8: a returned call with num_msg = 0 whose calloc succeeded returned
\* Success and published a zero-length array, without reading a message or
\* invoking a handler operation; one whose calloc failed returned Buf_Err.
C8_EmptyConversation ==
  Returned /\ num_msg = 0 =>
    /\ hcalls = <<>> /\ nread = 0
    /\ IF resp = NULL THEN ret = Buf_Err
       ELSE /\ ret = Success /\ out_resp = resp
            /\ heap[resp].kind = "array" /\ heap[resp].slots = <<>>
            /\ heap[resp].pubs = 1 /\ heap[resp].frees = 0

C8_Witness ==
  /\ Returned /\ num_msg = 0 /\ resp # NULL /\ ncalls = 2
  /\ out_resp_entry # NULL

\* C9: a call whose calloc failed has returned Buf_Err at once: no handler
\* operation was invoked, no message read, *out_resp is as at entry and the
\* heap is as at entry (nothing allocated, nothing freed).
C9_AllocationFailure ==
  ncalls > 0 /\ resp = NULL =>
    /\ Returned /\ ret = Buf_Err
    /\ hcalls = <<>> /\ nread = 0
    /\ out_resp = out_resp_entry
    /\ heap = heap_entry

C9_Witness ==
  /\ Returned /\ resp = NULL /\ num_msg = 2 /\ out_resp # NULL
  /\ heap # <<>>

\* a slot of the running call's array may be non-null only for a prompt
\* message the handler answered
SlotsJustified ==
  resp # NULL =>
    \A j \in DOMAIN heap[resp].slots :
      heap[resp].slots[j] # NULL =>
        /\ j - 1 \in Idx
        /\ msg[j].msg_style \in PromptStyles
        /\ \E k \in DOMAIN hcalls :
             /\ hcalls[k].idx = j - 1 /\ hcalls[k].res.ok
             /\ hcalls[k].op = OpOf(msg[j].msg_style)

\* C10: in every state of a call a response slot is non-null only if its
\* message is a prompt the handler answered successfully, and the step that
\* handles a Text_Info or Error_Msg message changes no slot.
C10_OnlyPromptsWriteSlots ==
  [][ /\ SlotsJustified'
      /\ (pc = "loop" /\ Cur.msg_style \notin PromptStyles)
           => heap' = heap ]_vars

C10_Witness ==
  /\ Returned /\ ret = Success /\ num_msg = 2
  /\ msg[1].msg_style = "Text_Info" /\ heap[resp].slots[1] = NULL
  /\ heap[resp].slots[2] # NULL

Nuls(b) == {k \in DOMAIN b : b[k] = 0}

\* what the claim expects of a prompt on the stored text b
StoredAnswer(b) == IF Nuls(b) = {} THEN Ok(b) ELSE Err

\* C11: with a PasswordConv handler, whatever the question, prompt_echo
\* answers with the stored login and prompt_blind with the stored password,
\* each failing exactly when the stored text contains a 0 byte; no step of
\* converse (so neither info nor error) changes the stored credentials.
C11_PasswordConv ==
  [][ /\ (pc \notin {"idle", "returned"}
            => login' = login /\ passwd' = passwd)
      /\ Len(hcalls') = Len(hcalls) + 1 =>
           LET c == hcalls'[Len(hcalls')] IN
           /\ c.op = "prompt_echo" => c.res = StoredAnswer(login)
           /\ c.op = "prompt_blind" => c.res = StoredAnswer(passwd)
           /\ c.msg = Cur.msg ]_vars

C11_Witness ==
  /\ Returned /\ login = <<1, 0, 2>> /\ passwd = <<3>>
  /\ Len(hcalls) = 2
  /\ hcalls[1].op = "prompt_blind" /\ hcalls[1].res.ok
  /\ hcalls[2].op = "prompt_echo" /\ ~hcalls[2].res.ok

\* handler call k is the image of message k (1-based)
ImageOf(k) ==
  /\ k <= num_msg
  /\ hcalls[k].idx = k - 1
  /\ hcalls[k].op = OpOf(msg[k].msg_style)
  /\ hcalls[k].msg = msg[k].msg

\* message k produced an error: a failed prompt or an Error_Msg
Stopped(k) == ~hcalls[k].res.ok \/ msg[k].msg_style = "Error_Msg"

\* the handler calls are the image of a prefix of the messages that no
\* error interrupts, and once the loop is left the prefix is the one
\* ending at the first error or the whole array
PrefixDispatched ==
  /\ \A k \in DOMAIN hcalls :
       /\ ImageOf(k)
       /\ Stopped(k) => k = Len(hcalls) /\ pc # "loop"
  /\ pc \in {"exit", "returned"} =>
       \/ Len(hcalls) > 0 /\ Stopped(Len(hcalls))
       \/ Len(hcalls) = IF num_msg < 0 THEN 0 ELSE num_msg

\* C12 as stated: the handler calls of every returned call are the in-order
\* image of the message prefix ending at the first error, or of the whole
\* array.
C12_Original == Returned => PrefixDispatched

\* C12: in every call whose calloc succeeded the handler calls are, in
\* order and one per message with the operation of its style, the image of
\* the message prefix ending at the first failed prompt or Error_Msg, or of
\* the whole array if there is none, and every slot after the last message
\* handled is null; a call whose calloc failed invokes nothing.
C12_InOrderPrefix ==
  ncalls > 0 =>
    IF resp = NULL THEN hcalls = <<>>
    ELSE /\ PrefixDispatched
         /\ \A j \in DOMAIN heap[resp].slots :
              j > Len(hcalls) => heap[resp].slots[j] = NULL

C12_Witness ==
  /\ Returned /\ resp # NULL /\ num_msg = 2 /\ Len(hcalls) = 1
  /\ hcalls[1].op = "prompt_blind" /\ ~hcalls[1].res.ok
  /\ msg[2].msg_style = "Prompt_Echo_On"

OnlyInfo == \A j \in Idx : msg[j + 1].msg_style = "Text_Info"

\* C13: a returned call with num_msg >= 1 whose messages are all Text_Info
\* and whose calloc succeeded invoked info once per message and nothing
\* else, returned Success and published an array of num_msg null slots.
C13_InfoOnly ==
  Returned /\ num_msg >= 1 /\ OnlyInfo /\ resp # NULL =>
    /\ Len(hcalls) = num_msg
    /\ \A k \in DOMAIN hcalls : hcalls[k].op = "info" /\ hcalls[k].idx = k - 1
    /\ ret = Success /\ out_resp = resp /\ heap[resp].pubs = 1
    /\ heap[resp].slots = [j \in 1..num_msg |-> NULL]

C13_Witness ==
  Returned /\ num_msg = 2 /\ OnlyInfo /\ resp # NULL /\ ncalls = 2

\* the arrays the host owns
Published == {p \in Arrays : heap[p].pubs = 1}

\* the non-null slots of array p
Filled(p) == {j \in DOMAIN heap[p].slots : heap[p].slots[j] # NULL}

\* C14: every non-null slot of a published array points to a block of its
\* own, made by strdup and never released, and no later step (a change of
\* the credentials by set_credentials, the drop of the handler's answer at
\* the end of the arm, a later call) changes the slot or the text in it.
C14_IndependentCopy ==
  [][ \A p \in Published :
        /\ heap'[p].slots = heap[p].slots
        /\ \A j \in Filled(p) :
             LET q == heap[p].slots[j] IN
             /\ heap[q].kind = "string" /\ heap[q].frees = 0
             /\ heap'[q].frees = 0
             /\ TextAt(heap', q) = TextAt(heap, q)
             /\ \A p2 \in Published : \A j2 \in Filled(p2) :
                  heap[p2].slots[j2] = q => p2 = p /\ j2 = j ]_vars

C14_Witness ==
  /\ Returned /\ ret = Success /\ num_msg = 2
  /\ Filled(resp) = {1, 2}
  /\ TextAt(heap, heap[resp].slots[1]) = <<>>
  /\ TextAt(heap, heap[resp].slots[2]) = <<>>
  /\ login = <<1, 0, 2>> /\ passwd = <<3>>

\* C15: a call with a negative num_msg never enters the dispatch loop: it
\* invokes no handler operation, reads no message and fills no slot, and it
\* returns Buf_Err with the heap as at entry, or Success with an array that
\* has no filled slot.
C15_NegativeCount ==
  ncalls > 0 /\ num_msg < 0 =>
    /\ pc # "loop" /\ hcalls = <<>> /\ nread = 0
    /\ resp # NULL => Filled(resp) = {}
    /\ Returned =>
         \/ ret = Buf_Err /\ resp = NULL /\ heap = heap_entry
                          /\ out_resp = out_resp_entry
         \/ ret = Success /\ resp # NULL /\ out_resp = resp

C15_Witness ==
  /\ Returned /\ num_msg < 0 /\ ret = Buf_Err /\ ncalls = 2
  /\ out_resp # NULL /\ hcalls = <<>>

Min(a, b) == IF a < b THEN a ELSE b

\* strdup succeeded for the prompt of handler call c, given the slot texts
Duplicated(c, slots) ==
  c.idx + 1 \in DOMAIN slots /\ slots[c.idx + 1] # NoText

\* the returned call and the remembered one were given the same messages,
\* the same allocator outcomes and, as far as both asked, the same answers
SameInputs ==
  /\ prev.num_msg = num_msg /\ prev.msg = msg
  /\ prev.alloc = (resp # NULL)
  /\ \A k \in 1..Min(Len(prev.hcalls), Len(hcalls)) :
       /\ prev.hcalls[k].res = hcalls[k].res
       /\ Duplicated(prev.hcalls[k], prev.slots)
            = Duplicated(hcalls[k], SlotTexts)

\* C16: a call given the same messages, handler answers and allocator
\* outcomes as an earlier call returns the same status, makes the same
\* handler calls and leaves the same slot texts, published or not as
\* before, whatever happened in between.
C16_Deterministic ==
  Returned /\ prev.called /\ SameInputs =>
    /\ ret = prev.ret
    /\ hcalls = prev.hcalls
    /\ SlotTexts = prev.slots
    /\ (resp # NULL /\ out_resp = resp) = prev.published

C16_Witness ==
  /\ Returned /\ prev.called /\ SameInputs
  /\ num_msg = 2 /\ ret = Conv_Err /\ Len(hcalls) = 2
  /\ SlotTexts[1] # NoText

====
